---------------------------- MODULE Spec2Model ----------------------------
(***************************************************************************)
(* A model of src/low.rs: the low-level wrapping of libffi.  The wrapper's *)
(* own code (status mapping, integer conversions, result plumbing, the     *)
(* test callback) is modelled from the source; the foreign functions it    *)
(* forwards to (c::ffi_prep_cif, c::ffi_prep_cif_var, c::ffi_call,         *)
(* c::ffi_closure_alloc, c::ffi_closure_free, c::ffi_prep_closure_loc) are *)
(* declared in module c, which is not part of the sources at hand, and are *)
(* modelled from the specification's description of them.                  *)
(*                                                                         *)
(* Machine integers keep their width.  TLC's integers are 32 bits wide, so *)
(* a usize / u64 is a little-endian sequence of UsizeLimbs digits in radix *)
(* LimbBase (4 x 16 = 64 bits) and a c_uint is CUintLimbs such digits      *)
(* (2 x 16 = 32 bits).  usize is taken as on a 64-bit target.              *)
(***************************************************************************)
EXTENDS Integers, Sequences, FiniteSets, TLC

(***************************************************************************)
(* Machine integers                                                        *)
(***************************************************************************)
\* the width of usize (a 64-bit target) and of c_uint
UsizeBits == 64
CUintBits == 32

LimbBits == 16
LimbBase == 2^LimbBits
UsizeLimbs == UsizeBits \div LimbBits
CUintLimbs == CUintBits \div LimbBits

MaxLimb == LimbBase - 1

\* A small natural number as a 64-bit value (v < LimbBase)
U64(v) == [i \in 1..UsizeLimbs |-> IF i = 1 THEN v ELSE 0]

\* 2^32 + v: the smallest values that do not fit a c_uint
Pow32Plus(v) == [i \in 1..UsizeLimbs |-> IF i = 1 THEN v ELSE IF i = CUintLimbs + 1 THEN 1 ELSE 0]

\* u64::MAX / usize::MAX
U64Max == [i \in 1..UsizeLimbs |-> MaxLimb]

\* `nargs as c_uint`: the conversion keeps the low 32 bits
AsCUint(n) == [i \in 1..CUintLimbs |-> n[i]]

\* a c_uint read back as a 64-bit value (zero extension)
ZeroExtend(c) == [i \in 1..UsizeLimbs |-> IF i <= Len(c) THEN c[i] ELSE 0]

\* unsigned comparison a < b of two values of the same width
RECURSIVE LessFrom(_, _, _)
LessFrom(a, b, i) ==
    IF i = 0 THEN FALSE
    ELSE IF a[i] # b[i] THEN a[i] < b[i]
    ELSE LessFrom(a, b, i - 1)

Less(a, b) == LessFrom(a, b, Len(a))

LessEq(a, b) == a = b \/ Less(a, b)

\* carry into digit i of a + b
RECURSIVE Carry(_, _, _)
Carry(a, b, i) ==
    IF i = 1 THEN 0
    ELSE (a[i - 1] + b[i - 1] + Carry(a, b, i - 1)) \div LimbBase

\* a + b modulo 2^64
WrappingAdd(a, b) ==
    [i \in 1..Len(a) |-> (a[i] + b[i] + Carry(a, b, i)) % LimbBase]

\* whether a + b exceeds the width
AddOverflows(a, b) == Carry(a, b, Len(a) + 1) = 1

(***************************************************************************)
(* Bounds of the model and the inputs the operations are tried on          *)
(***************************************************************************)
\* closures the allocator can hold before it runs out of memory
MaxClosures == 2
\* threads invoking trampolines
MaxThreads == 2

Threads == 1..MaxThreads
\* the caller's ffi_cif storage: the one it builds into, and one it never
\* builds, left as Default::default() made it
BuildSlots == {"cif"}
CifSlots == BuildSlots \cup {"unbuilt"}

\* argument counts handed to prep_cif / prep_cif_var (usize)
CountVals == {U64(0), U64(1), Pow32Plus(0), Pow32Plus(1)}
\* positions of a malformed argument descriptor in the argument array
PosVals == {U64(0), Pow32Plus(0)}
\* 64-bit arguments of the native function
ArgVals == {U64(0), U64(6), U64(7), U64Max}
\* 64-bit arguments the trampolines are invoked with
InvokeVals == {U64(6), U64(7), U64Max}
\* what an uninitialized u64 can hold
Uninit64 == U64(0)
\* addresses of the user data cells
UserPtrs == {"env1", "env2"}

Abis == {"FFI_DEFAULT_ABI", "FFI_UNSUPPORTED_ABI"}
SupportedAbis == {"FFI_DEFAULT_ABI"}
RTypes == {"ffi_type_uint64", "malformed"}

\* the argument-type arrays a caller can pass: `len` descriptors, all
\* ffi_type_uint64 except, with hasBad, a malformed one at position `bad`
ATypes ==
    {[len |-> n, hasBad |-> FALSE, bad |-> U64(0)] : n \in CountVals} \cup
    {a \in [len : CountVals, hasBad : {TRUE}, bad : PosVals] : Less(a.bad, a.len)}

\* test::closure builds its interface over (uint64) -> uint64
U64Args == [len |-> U64(1), hasBad |-> FALSE, bad |-> U64(0)]

(***************************************************************************)
(* State                                                                   *)
(***************************************************************************)
VARIABLES
    cifs,            \* the ffi_cif storage of each slot
    closures,        \* the closure control block of each allocated trampoline
    nalloc,          \* closures handed out so far
    mem,             \* the u64 behind each user data pointer
    overflowChecks,  \* whether the build checks arithmetic overflow
    pc,              \* where each thread is in a trampoline invocation
    frame,           \* the call frame of each thread's invocation in flight
    caller,          \* what each thread passed to and got from the entry point
    ret,             \* the operation that ran last, its inputs and its return
    ub,              \* undefined behaviour has occurred
    panicked         \* the callback panicked

vars == <<cifs, closures, nalloc, mem, overflowChecks, pc, frame, caller, ret, ub, panicked>>

\* ffi_cif as Default::default() leaves it
DefaultCif ==
    [built |-> FALSE, abi |-> "none", nargs |-> AsCUint(U64(0)),
     nfixed |-> AsCUint(U64(0)), variadic |-> FALSE, rtype |-> "none"]

NullClosure == [state |-> "None", cif |-> "none", userdata |-> "none"]

NoFrame == [closure |-> 0, arg |-> U64(0), result |-> U64(0), userdata |-> "none"]

NoCall == [closure |-> 0, arg |-> U64(0), value |-> U64(0), userdata |-> "none"]

\* the test's environment: env = 5 behind one pointer, another u64 behind a second
InitMem == [p \in UserPtrs |-> IF p = "env1" THEN U64(5) ELSE U64(1)]

Init ==
    /\ cifs = [c \in CifSlots |-> DefaultCif]
    /\ closures = [k \in 1..MaxClosures |-> NullClosure]
    /\ nalloc = 0
    /\ mem = InitMem
    /\ overflowChecks \in BOOLEAN
    /\ pc = [t \in Threads |-> "idle"]
    /\ frame = [t \in Threads |-> NoFrame]
    /\ caller = [t \in Threads |-> NoCall]
    /\ ret = [op |-> "init", result |-> "none"]
    /\ ub = FALSE
    /\ panicked = FALSE

\* the process runs on: no undefined behaviour so far, no panic
Running == ~ub /\ ~panicked

(***************************************************************************)
(* Error / ffi_status_to_result                                            *)
(***************************************************************************)
ffi_status_to_result_swapped(status) ==
    CASE status = "FFI_OK" -> "Ok"
      [] status = "FFI_BAD_TYPEDEF" -> "Err(BadAbi)"
      [] status = "FFI_BAD_ABI" -> "Err(BadTypedef)"

ffi_status_to_result(status) ==
    CASE status = "FFI_OK" -> "Ok"
      [] status = "FFI_BAD_TYPEDEF" -> "Err(BadTypedef)"
      [] status = "FFI_BAD_ABI" -> "Err(BadAbi)"

(***************************************************************************)
(* c::ffi_prep_cif / c::ffi_prep_cif_var (the Call Interface Builder)      *)
(***************************************************************************)
\* a descriptor among those the builder is told to read is malformed
TypesMalformed(ntotal, rtype, atypes) ==
    \/ rtype = "malformed"
    \/ atypes.hasBad /\ Less(atypes.bad, ZeroExtend(ntotal))

\* the statuses the builder can return for an input
c_prep_status(abi, ntotal, rtype, atypes) ==
    LET badAbi == abi \notin SupportedAbis
        badType == TypesMalformed(ntotal, rtype, atypes)
    IN  IF badAbi /\ badType THEN {"FFI_BAD_ABI", "FFI_BAD_TYPEDEF"}
        ELSE IF badAbi THEN {"FFI_BAD_ABI"}
        ELSE IF badType THEN {"FFI_BAD_TYPEDEF"}
        ELSE {"FFI_OK"}

\* the descriptor a successful build leaves in the caller's storage
c_built_cif(abi, nfixed, ntotal, rtype, variadic) ==
    [built |-> TRUE, abi |-> abi, nargs |-> ntotal, nfixed |-> nfixed,
     variadic |-> variadic, rtype |-> rtype]

\* the storage after the builder returned `status`
c_ffi_prep_cif(old, status, abi, nfixed, ntotal, rtype, variadic) ==
    IF status = "FFI_OK" THEN c_built_cif(abi, nfixed, ntotal, rtype, variadic)
    ELSE old

(***************************************************************************)
(* prep_cif                                                                *)
(***************************************************************************)
prep_cif_resets(cif, abi, nargs, rtype, atypes) ==
    /\ Running
    /\ \E status \in c_prep_status(abi, AsCUint(nargs), rtype, atypes) :
        /\ cifs' = [cifs EXCEPT ![cif] =
                        c_ffi_prep_cif(DefaultCif, status, abi, AsCUint(nargs),
                                       AsCUint(nargs), rtype, FALSE)]
        /\ ret' = [op |-> "prep_cif", cif |-> cif, abi |-> abi, nargs |-> nargs,
                   rtype |-> rtype, atypes |-> atypes,
                   status |-> status, result |-> ffi_status_to_result(status)]
    /\ UNCHANGED <<closures, nalloc, mem, overflowChecks, pc, frame, caller, ub, panicked>>

prep_cif(cif, abi, nargs, rtype, atypes) ==
    /\ Running
    /\ \E status \in c_prep_status(abi, AsCUint(nargs), rtype, atypes) :
        /\ cifs' = [cifs EXCEPT ![cif] =
                        c_ffi_prep_cif(@, status, abi, AsCUint(nargs),
                                       AsCUint(nargs), rtype, FALSE)]
        /\ ret' = [op |-> "prep_cif", cif |-> cif, abi |-> abi, nargs |-> nargs,
                   rtype |-> rtype, atypes |-> atypes,
                   status |-> status, result |-> ffi_status_to_result(status)]
    /\ UNCHANGED <<closures, nalloc, mem, overflowChecks, pc, frame, caller, ub, panicked>>

(***************************************************************************)
(* prep_cif_var                                                            *)
(***************************************************************************)
prep_cif_var_swapped(cif, abi, nfixedargs, ntotalargs, rtype, atypes) ==
    /\ Running
    /\ \E status \in c_prep_status(abi, AsCUint(nfixedargs), rtype, atypes) :
        /\ cifs' = [cifs EXCEPT ![cif] =
                        c_ffi_prep_cif(@, status, abi, AsCUint(ntotalargs),
                                       AsCUint(nfixedargs), rtype, TRUE)]
        /\ ret' = [op |-> "prep_cif_var", cif |-> cif, abi |-> abi,
                   nfixedargs |-> nfixedargs, nargs |-> ntotalargs,
                   rtype |-> rtype, atypes |-> atypes,
                   status |-> status, result |-> ffi_status_to_result(status)]
    /\ UNCHANGED <<closures, nalloc, mem, overflowChecks, pc, frame, caller, ub, panicked>>

prep_cif_var(cif, abi, nfixedargs, ntotalargs, rtype, atypes) ==
    /\ Running
    /\ \E status \in c_prep_status(abi, AsCUint(ntotalargs), rtype, atypes) :
        /\ cifs' = [cifs EXCEPT ![cif] =
                        c_ffi_prep_cif(@, status, abi, AsCUint(nfixedargs),
                                       AsCUint(ntotalargs), rtype, TRUE)]
        /\ ret' = [op |-> "prep_cif_var", cif |-> cif, abi |-> abi,
                   nfixedargs |-> nfixedargs, nargs |-> ntotalargs,
                   rtype |-> rtype, atypes |-> atypes,
                   status |-> status, result |-> ffi_status_to_result(status)]
    /\ UNCHANGED <<closures, nalloc, mem, overflowChecks, pc, frame, caller, ub, panicked>>

(***************************************************************************)
(* call (the Dispatcher), with a native function computing x + 1           *)
(***************************************************************************)
\* the interface describes (uint64) -> uint64
IsU64ToU64(c) ==
    /\ c.built
    /\ c.rtype = "ffi_type_uint64"
    /\ ZeroExtend(c.nargs) = U64(1)

\* the native function: x + 1 in 64-bit unsigned arithmetic
native_inc(x) == WrappingAdd(x, U64(1))

\* c::ffi_call: what the library writes to the return slot
c_ffi_call(x) == native_inc(x)

\* the wrapper returns the slot it gave the library to fill
call_result_unwritten(slot, written) == slot

call_result(slot, written) == written

call(cif, x) ==
    /\ Running
    /\ IF IsU64ToU64(cifs[cif])
       THEN /\ ret' = [op |-> "call", cif |-> cif, arg |-> x, argAfter |-> x,
                       before |-> cifs[cif],
                       value |-> call_result(Uninit64, c_ffi_call(x)), result |-> "none"]
            /\ ub' = ub
       ELSE \* the interface does not match the call: undefined behaviour
            /\ \E v \in ArgVals :
                 ret' = [op |-> "call", cif |-> cif, arg |-> x, argAfter |-> x,
                         before |-> cifs[cif], value |-> v, result |-> "none"]
            /\ ub' = TRUE
    /\ UNCHANGED <<cifs, closures, nalloc, mem, overflowChecks, pc, frame, caller, panicked>>

(***************************************************************************)
(* closure_alloc / closure_free                                            *)
(***************************************************************************)
NULL == 0
\* the two addresses of region k: the writable one and the executable one
WAddr(k) == 2 * k
XAddr(k) == 2 * k + 1
RegionOf(addr) == addr \div 2

\* what the uninitialized code_pointer can hold when the library leaves it
UninitPtrs == {NULL} \cup {XAddr(k) : k \in 1..MaxClosures}

closure_alloc ==
    /\ Running
    /\ \/ \* the library reserves a region
          /\ nalloc < MaxClosures
          /\ nalloc' = nalloc + 1
          /\ closures' = [closures EXCEPT ![nalloc + 1] =
                              [state |-> "Allocated", cif |-> "none", userdata |-> "none"]]
          /\ ret' = [op |-> "closure_alloc", result |-> "none",
                     pair |-> [closure |-> WAddr(nalloc + 1), code |-> XAddr(nalloc + 1)]]
       \/ \* the library cannot reserve memory: it returns NULL and leaves
          \* code_pointer as it was, uninitialized
          /\ \E g \in UninitPtrs :
               ret' = [op |-> "closure_alloc", result |-> "none",
                       pair |-> [closure |-> NULL, code |-> g]]
          /\ UNCHANGED <<nalloc, closures>>
    /\ UNCHANGED <<cifs, mem, overflowChecks, pc, frame, caller, ub, panicked>>

\* an invocation of trampoline k is in flight
InFlight(k) == \E t \in Threads : pc[t] \in {"callback", "return"} /\ frame[t].closure = k

LiveStates == {"Allocated", "Prepared"}
ClosureStates == {"Allocated", "Prepared", "Freed"}

closure_free(k) ==
    /\ Running
    /\ k \in 1..nalloc
    /\ closures' = [closures EXCEPT ![k].state = "Freed"]
    /\ \* a double free, or a free racing an invocation, is undefined behaviour
       ub' = ~(closures[k].state \in LiveStates /\ ~InFlight(k))
    /\ ret' = [op |-> "closure_free", closure |-> k, result |-> "none"]
    /\ UNCHANGED <<cifs, nalloc, mem, overflowChecks, pc, frame, caller, panicked>>

(***************************************************************************)
(* prep_closure_loc                                                        *)
(***************************************************************************)
\* the statuses c::ffi_prep_closure_loc can return for an interface
c_closure_status(c) ==
    IF c.built THEN {"FFI_OK"} ELSE {"FFI_BAD_ABI", "FFI_BAD_TYPEDEF"}

\* the control block after the library returned `status`
c_ffi_prep_closure_loc(old, status, cif, userdata) ==
    IF status = "FFI_OK"
    THEN [state |-> "Prepared", cif |-> cif, userdata |-> userdata]
    ELSE old

prep_closure_loc_unbinds(k, cif, userdata) ==
    /\ Running
    /\ k \in 1..nalloc
    /\ \E status \in c_closure_status(cifs[cif]) :
          /\ closures' = [closures EXCEPT ![k] =
                              c_ffi_prep_closure_loc(
                                  [state |-> "Allocated", cif |-> "none", userdata |-> "none"],
                                  status, cif, userdata)]
          /\ ret' = [op |-> "prep_closure_loc", closure |-> k, cif |-> cif,
                     was |-> closures[k].state,
                     status |-> status, result |-> ffi_status_to_result(status)]
          /\ ub' = ~(closures[k].state \in LiveStates /\ ~InFlight(k))
    /\ UNCHANGED <<cifs, nalloc, mem, overflowChecks, pc, frame, caller, panicked>>

prep_closure_loc(k, cif, userdata) ==
    /\ Running
    /\ k \in 1..nalloc
    /\ IF closures[k].state \in LiveStates /\ ~InFlight(k)
       THEN \E status \in c_closure_status(cifs[cif]) :
              /\ closures' = [closures EXCEPT ![k] =
                                  c_ffi_prep_closure_loc(@, status, cif, userdata)]
              /\ ret' = [op |-> "prep_closure_loc", closure |-> k, cif |-> cif,
                         was |-> closures[k].state,
                         status |-> status, result |-> ffi_status_to_result(status)]
              /\ ub' = ub
       ELSE \* a write through a dangling handle, or a prepare racing an
            \* invocation: undefined behaviour, the region may or may not
            \* take the binding
            \E status \in c_closure_status(cifs[cif]), s \in ClosureStates :
              /\ closures' = [closures EXCEPT ![k] =
                                  IF s = "Prepared"
                                  THEN [state |-> s, cif |-> cif, userdata |-> userdata]
                                  ELSE [@ EXCEPT !.state = s]]
              /\ ret' = [op |-> "prep_closure_loc", closure |-> k, cif |-> cif,
                         was |-> closures[k].state,
                         status |-> status, result |-> ffi_status_to_result(status)]
              /\ ub' = TRUE
    /\ UNCHANGED <<cifs, nalloc, mem, overflowChecks, pc, frame, caller, panicked>>

(***************************************************************************)
(* An invocation of the executable entry point, as fn(u64) -> u64          *)
(***************************************************************************)
\* test::callback: *result = **args + *userdata
callback_ignores_arg(arg, env) == env

callback_sum(arg, env) == WrappingAdd(arg, env)

\* the addition overflows u64: a panic where the build checks overflow
callback_overflows(arg, env) == AddOverflows(arg, env)

\* the thread calls the entry point: the trampoline sets up the call frame
invoke_enter(t, k, x) ==
    /\ Running
    /\ pc[t] \in {"idle", "done"}
    /\ k \in 1..nalloc
    /\ IF closures[k].state = "Prepared" /\ IsU64ToU64(cifs[closures[k].cif])
       THEN /\ frame' = [frame EXCEPT ![t] =
                            [closure |-> k, arg |-> x, result |-> Uninit64,
                             userdata |-> closures[k].userdata]]
            /\ caller' = [caller EXCEPT ![t] =
                            [closure |-> k, arg |-> x, value |-> Uninit64,
                             userdata |-> closures[k].userdata]]
            /\ pc' = [pc EXCEPT ![t] = "callback"]
            /\ ub' = ub
       ELSE \* the entry point is not callable: undefined behaviour
            /\ UNCHANGED <<frame, caller, pc>>
            /\ ub' = TRUE
    /\ ret' = [op |-> "invoke", result |-> "none"]
    /\ UNCHANGED <<cifs, closures, nalloc, mem, overflowChecks, panicked>>

\* the trampoline forwards the frame and the user data to the callback
invoke_callback(t) ==
    /\ Running
    /\ pc[t] = "callback"
    /\ LET arg == frame[t].arg
           env == mem[frame[t].userdata]
       IN  IF callback_overflows(arg, env) /\ overflowChecks
           THEN /\ panicked' = TRUE
                /\ UNCHANGED <<frame, pc>>
           ELSE /\ frame' = [frame EXCEPT ![t].result = callback_sum(arg, env)]
                /\ pc' = [pc EXCEPT ![t] = "return"]
                /\ panicked' = panicked
    /\ ret' = [op |-> "invoke", result |-> "none"]
    /\ UNCHANGED <<cifs, closures, nalloc, mem, overflowChecks, caller, ub>>

\* the entry point returns the frame's return slot to its caller
invoke_return(t) ==
    /\ Running
    /\ pc[t] = "return"
    /\ caller' = [caller EXCEPT ![t].value = frame[t].result]
    /\ frame' = [frame EXCEPT ![t] = NoFrame]
    /\ pc' = [pc EXCEPT ![t] = "done"]
    /\ ret' = [op |-> "invoke", result |-> "none"]
    /\ UNCHANGED <<cifs, closures, nalloc, mem, overflowChecks, ub, panicked>>

(***************************************************************************)
(* Specifications                                                          *)
(***************************************************************************)
\* the builder and the dispatcher on every input
DoPrepCif ==
    \E c \in BuildSlots, abi \in Abis, rtype \in RTypes, atypes \in ATypes :
        prep_cif(c, abi, atypes.len, rtype, atypes)

DoPrepCifVar ==
    \E c \in BuildSlots, abi \in Abis, nfixed \in CountVals, rtype \in RTypes, atypes \in ATypes :
        prep_cif_var(c, abi, nfixed, atypes.len, rtype, atypes)

DoCall == \E c \in CifSlots, x \in ArgVals : call(c, x)

NextBuilder ==
    \/ DoPrepCif
    \/ DoPrepCifVar
    \/ DoCall

SpecBuilder == Init /\ [][NextBuilder]_vars

\* the six operations of the wrapper, the builder on one-argument inputs
DoPrepCifOne ==
    \E c \in BuildSlots, abi \in Abis, rtype \in RTypes :
        prep_cif(c, abi, U64(1), rtype, U64Args)

DoPrepCifVarOne ==
    \E c \in BuildSlots, abi \in Abis, rtype \in RTypes :
        prep_cif_var(c, abi, U64(1), U64(1), rtype, U64Args)

DoClosureFree == \E k \in 1..MaxClosures : closure_free(k)

DoPrepClosureLoc ==
    \E k \in 1..MaxClosures, c \in CifSlots, p \in UserPtrs : prep_closure_loc(k, c, p)

Next ==
    \/ DoPrepCifOne
    \/ DoPrepCifVarOne
    \/ DoCall
    \/ closure_alloc
    \/ DoClosureFree
    \/ DoPrepClosureLoc

Spec == Init /\ [][Next]_vars

\* the closure lifecycle of test::closure, with threads invoking the trampolines
DoPrepCifTest ==
    \E c \in BuildSlots : prep_cif(c, "FFI_DEFAULT_ABI", U64(1), "ffi_type_uint64", U64Args)

DoInvokeEnter == \E t \in Threads, k \in 1..MaxClosures, x \in InvokeVals : invoke_enter(t, k, x)

DoInvokeCallback == \E t \in Threads : invoke_callback(t)

DoInvokeReturn == \E t \in Threads : invoke_return(t)

NextInvoke ==
    \/ DoPrepCifTest
    \/ closure_alloc
    \/ DoClosureFree
    \/ DoPrepClosureLoc
    \/ DoInvokeEnter
    \/ DoInvokeCallback
    \/ DoInvokeReturn

SpecInvoke == Init /\ [][NextInvoke]_vars

(***************************************************************************)
(* Properties                                                              *)
(***************************************************************************)
FallibleOps == {"prep_cif", "prep_cif_var", "prep_closure_loc"}
InfallibleOps == {"call", "closure_alloc", "closure_free"}
Results == {"Ok", "Err(BadTypedef)", "Err(BadAbi)"}

\* n is representable as a c_uint
Fits(n) == ZeroExtend(AsCUint(n)) = n

\* the ABI tag of the builder call recorded in r is not supported
UnsupportedAbi(r) == r.abi \notin SupportedAbis

\* the return descriptor or some argument descriptor of the array is malformed
AnyMalformed(r) == r.rtype = "malformed" \/ r.atypes.hasBad

\* the return descriptor is malformed, or an argument descriptor among the
\* first (nargs as c_uint) of the array is
ReadMalformed(r) ==
    \/ r.rtype = "malformed"
    \/ r.atypes.hasBad /\ Less(r.atypes.bad, ZeroExtend(AsCUint(r.nargs)))

StateMove(k) == <<closures[k].state, closures'[k].state>>

\* Allocated -> Prepared -> Freed, a closure freed before it is prepared,
\* and a closure staying where it is
ForwardMoves ==
    {<<"None", "None">>, <<"None", "Allocated">>, <<"Allocated", "Allocated">>,
     <<"Allocated", "Prepared">>, <<"Allocated", "Freed">>,
     <<"Prepared", "Prepared">>, <<"Prepared", "Freed">>, <<"Freed", "Freed">>}

\* the step is a prep_closure_loc that bound the already Prepared trampoline k
PreparedAgain(k) ==
    /\ ret'.op = "prep_closure_loc"
    /\ ret'.closure = k
    /\ ret'.was = "Prepared"
    /\ ret'.status = "FFI_OK"

\* C1 as claimed: a trampoline only moves Allocated -> Prepared -> Freed, no
\* prep_closure_loc binds an already Prepared trampoline, and Freed is
\* terminal (steps of undefined behaviour set aside).
C1_NoRePrepare ==
    [][~ub' => \A k \in 1..MaxClosures :
                  StateMove(k) \in ForwardMoves /\ ~PreparedAgain(k)]_vars

\* C1 (amended): as long as no undefined behaviour occurs a trampoline's
\* state never moves backwards along Allocated -> Prepared -> Freed and Freed
\* is terminal; a prep_closure_loc on a Prepared trampoline is accepted and
\* leaves it Prepared.
C1_Lifecycle ==
    [][~ub' => \A k \in 1..MaxClosures : StateMove(k) \in ForwardMoves]_vars

\* a Prepared trampoline has been prepared again while another one is Freed
C1_Witness ==
    /\ ~ub
    /\ ret.op = "prep_closure_loc"
    /\ ret.was = "Prepared"
    /\ ret.result = "Ok"
    /\ closures[ret.closure].state = "Prepared"
    /\ \E k \in 1..MaxClosures : closures[k].state = "Freed"

\* C2: prep_cif, prep_cif_var and prep_closure_loc return Ok exactly for
\* FFI_OK, Err(BadTypedef) exactly for FFI_BAD_TYPEDEF and Err(BadAbi) exactly
\* for FFI_BAD_ABI, and nothing else; call, closure_alloc and closure_free
\* report no error.
C2_ErrorMapping ==
    /\ ret.op \in FallibleOps =>
        /\ ret.result \in Results
        /\ ret.result = "Ok" <=> ret.status = "FFI_OK"
        /\ ret.result = "Err(BadTypedef)" <=> ret.status = "FFI_BAD_TYPEDEF"
        /\ ret.result = "Err(BadAbi)" <=> ret.status = "FFI_BAD_ABI"
    /\ ret.op \in InfallibleOps => ret.result \notin Results

\* prep_closure_loc has reported BadTypedef
C2_Witness ==
    /\ ret.op = "prep_closure_loc"
    /\ ret.status = "FFI_BAD_TYPEDEF"
    /\ ret.result = "Err(BadTypedef)"

\* C3 as claimed: for a supported ABI and well-formed descriptors prep_cif
\* succeeds and the interface's argument count equals nargs, whatever the
\* usize nargs is.
C3_ArgCountIsLen ==
    (ret.op = "prep_cif" /\ ~UnsupportedAbi(ret) /\ ~AnyMalformed(ret)) =>
        /\ ret.result = "Ok"
        /\ cifs[ret.cif].built
        /\ ZeroExtend(cifs[ret.cif].nargs) = ret.nargs

\* C4 as claimed: every malformed input fails with BadTypedef and every input
\* with an unsupported ABI fails with BadAbi (argument counts that fit a
\* c_uint).
C4_BothErrors ==
    (ret.op = "prep_cif" /\ Fits(ret.nargs)) =>
        /\ AnyMalformed(ret) => ret.result = "Err(BadTypedef)"
        /\ UnsupportedAbi(ret) => ret.result = "Err(BadAbi)"

\* C4 (amended): prep_cif reports one error per call: BadAbi for an
\* unsupported ABI with no malformed descriptor read, BadTypedef for a
\* supported ABI with a malformed descriptor among those read, and one of the
\* two when both hold.
C4_OneError ==
    ret.op = "prep_cif" =>
        /\ (UnsupportedAbi(ret) /\ ~ReadMalformed(ret)) => ret.result = "Err(BadAbi)"
        /\ (~UnsupportedAbi(ret) /\ ReadMalformed(ret)) => ret.result = "Err(BadTypedef)"
        /\ (UnsupportedAbi(ret) /\ ReadMalformed(ret)) =>
               ret.result \in {"Err(BadAbi)", "Err(BadTypedef)"}

\* prep_cif has failed on an input that is malformed and has an unsupported ABI
C4_Witness ==
    /\ ret.op = "prep_cif"
    /\ UnsupportedAbi(ret)
    /\ ReadMalformed(ret)
    /\ ret.result = "Err(BadTypedef)"

GotSum(t) == caller[t].value = WrappingAdd(caller[t].arg, mem[caller[t].userdata])

\* the invocations of the test: 6 -> 11 and 7 -> 12 with env = 5
GotTestValues(t) ==
    caller[t].userdata = "env1" =>
        /\ caller[t].arg = U64(6) => caller[t].value = U64(11)
        /\ caller[t].arg = U64(7) => caller[t].value = U64(12)

C7_OwnResult ==
    \A t \in Threads :
        /\ pc[t] \in {"callback", "return"} =>
               /\ frame[t].arg = caller[t].arg
               /\ frame[t].closure = caller[t].closure
        /\ pc[t] = "return" =>
               frame[t].result = WrappingAdd(caller[t].arg, mem[caller[t].userdata])
        /\ pc[t] = "done" => GotSum(t)

\* two invocations of one trampoline with distinct arguments are in flight,
\* one of them with its result computed
C7_Witness ==
    \E t, u \in Threads :
        /\ pc[t] = "return" /\ pc[u] = "callback"
        /\ frame[t].closure = frame[u].closure
        /\ frame[t].arg = U64(6) /\ frame[u].arg = U64(7)
        /\ frame[t].result = U64(11)

\* C8 as claimed: every variadic interface prep_cif_var builds has
\* fixedCount <= totalCount (counts that fit a c_uint).
C8_FixedWithinTotal ==
    (/\ ret.op = "prep_cif_var" /\ ret.result = "Ok"
     /\ Fits(ret.nfixedargs) /\ Fits(ret.nargs)) =>
        LessEq(cifs[ret.cif].nfixed, cifs[ret.cif].nargs)

\* C8 (amended): prep_cif_var fails as prep_cif does and for nothing else, in
\* particular not for nfixedargs > ntotalargs; the interface it builds holds
\* the two counts as converted to c_uint, so it has fixedCount <= totalCount
\* whenever the caller passed counts that fit with nfixedargs <= ntotalargs.
C8_CountsAsPassed ==
    ret.op = "prep_cif_var" =>
        /\ ret.result = "Ok" <=> (~UnsupportedAbi(ret) /\ ~ReadMalformed(ret))
        /\ (UnsupportedAbi(ret) /\ ~ReadMalformed(ret)) => ret.result = "Err(BadAbi)"
        /\ (~UnsupportedAbi(ret) /\ ReadMalformed(ret)) => ret.result = "Err(BadTypedef)"
        /\ ret.result = "Ok" =>
            /\ cifs[ret.cif].built /\ cifs[ret.cif].variadic
            /\ cifs[ret.cif].nfixed = AsCUint(ret.nfixedargs)
            /\ cifs[ret.cif].nargs = AsCUint(ret.nargs)
        /\ (/\ ret.result = "Ok" /\ Fits(ret.nfixedargs) /\ Fits(ret.nargs)
            /\ LessEq(ret.nfixedargs, ret.nargs)) =>
            /\ ZeroExtend(cifs[ret.cif].nfixed) = ret.nfixedargs
            /\ ZeroExtend(cifs[ret.cif].nargs) = ret.nargs
            /\ LessEq(cifs[ret.cif].nfixed, cifs[ret.cif].nargs)

\* prep_cif_var has built an interface with more fixed than total arguments
C8_Witness ==
    /\ ret.op = "prep_cif_var"
    /\ ret.result = "Ok"
    /\ Fits(ret.nfixedargs) /\ Fits(ret.nargs)
    /\ Less(cifs[ret.cif].nargs, cifs[ret.cif].nfixed)

\* C9 as claimed: the pair closure_alloc returns is always a writable handle
\* and a distinct entry point of one newly reserved region in the Allocated
\* state.
C9_AlwaysReserved ==
    ret.op = "closure_alloc" =>
        /\ ret.pair.closure # NULL
        /\ ret.pair.code # NULL
        /\ ret.pair.code # ret.pair.closure
        /\ RegionOf(ret.pair.code) = RegionOf(ret.pair.closure)
        /\ RegionOf(ret.pair.closure) \in 1..MaxClosures
        /\ closures[RegionOf(ret.pair.closure)].state = "Allocated"

\* x + 1 in 64-bit arithmetic, for the arguments tried
Successor64(x) == IF x = U64Max THEN U64(0) ELSE U64(x[1] + 1)

\* C10: with an interface over (uint64) -> uint64 and a native function
\* computing x + 1, call returns x + 1 in 64-bit arithmetic (1 for 0, 0 for
\* the maximum), and leaves the interface and the argument as they were.
C10_CallRoundTrip ==
    (ret.op = "call" /\ ~ub) =>
        /\ ret.value = Successor64(ret.arg)
        /\ ret.argAfter = ret.arg
        /\ cifs[ret.cif] = ret.before

\* call has returned 0 for the maximum u64
C10_Witness ==
    /\ ret.op = "call"
    /\ ~ub
    /\ ret.arg = U64Max
    /\ ret.value = U64(0)

=============================================================================
